---- MODULE Spec2Model ----
(***************************************************************************)
(* Model of lib/cfclient/utils/inputreaders/linuxjsdev.py: the Joystick    *)
(* class (open / close / read on one instance) together with the part of   *)
(* the operating system it talks to: the file objects it opens on          *)
(* /dev/input/js<N>, the event records queued on each device, and the two  *)
(* capability ioctls.                                                      *)
(*                                                                         *)
(* Python lists are objects: self.axes and self.buttons hold references    *)
(* into `heap`, and so does a result handed to the caller.  Numbers are    *)
(* kept exact as <<numerator, denominator>> in lowest terms, so that       *)
(* v / 32768.0 (exact in binary floating point for 16-bit v) is told apart *)
(* from the raw integer v.                                                 *)
(***************************************************************************)
EXTENDS Integers, Sequences, FiniteSets, TLC

\* ---------------------------------------------------------------- bounds
MaxQueue == 2      \* records buffered when one more may still arrive
MaxOpens == 2      \* file objects the instance may acquire in one run
MaxLists == 4      \* list objects alive at once (2 current, 2 new)

\* ----------------------------------------------------- program constants
JS_EVENT_BUTTON == 1
JS_EVENT_AXIS == 2
JS_EVENT_INIT == 128
AXIS_SCALE == 32768

\* ------------------------------------------------------------ input sets
Devices == {0, 1}     \* the ids a caller passes to open
Plugged == {0}        \* the ids whose device node exists
AxisCounts == {0, 1, 2}
ButtonCounts == {0, 1}
Caps == [axes : AxisCounts, buttons : ButtonCounts]
\* event records the driver queues while the node is open
Records ==
    [type : {JS_EVENT_AXIS}, number : {0, 1}, value : {16384, -32768}] \cup
    [type : {JS_EVENT_BUTTON}, number : {0}, value : {1}]
\* the replay of the controls' values that the driver buffers when the node
\* is opened: one record per button, then one per axis, all marked INIT
InitButton(n) ==
    [type |-> JS_EVENT_BUTTON + JS_EVENT_INIT, number |-> n, value |-> 1]
InitAxis(n) ==
    [type |-> JS_EVENT_AXIS + JS_EVENT_INIT, number |-> n, value |-> 16384]
FullReplay(c) ==
    [i \in 1..(c.buttons + c.axes) |->
        IF i <= c.buttons THEN InitButton(i - 1)
        ELSE InitAxis(i - 1 - c.buttons)]
\* what open() may find buffered: the replay; the replay cut short by one
\* record; the replay with the index of its last record one too high; the
\* replay followed by an event that arrived in the meantime
Replays(c) ==
    LET full == FullReplay(c)
        n == Len(full)
    IN  {full,
         Append(full, [type |-> JS_EVENT_AXIS, number |-> 0,
                       value |-> -32768])}
        \cup (IF n = 0 THEN {}
              ELSE {SubSeq(full, 1, n - 1),
                    [full EXCEPT ![n].number = @ + 1]})
QueryOutcomes == {"ok", "nonzero", "raise"}
NoFault == -1
IOFaults == {NoFault, 0}
ListIds == 1..MaxLists

NoFile == 0
NoList == 0
NoResult == [axes |-> NoList, buttons |-> NoList]

VARIABLES
    opened,      \* self.opened
    device_id,   \* self.device_id
    jsfile,      \* self.jsfile: index into files, NoFile for None
    axes,        \* self.axes: reference into heap
    buttons,     \* self.buttons: reference into heap
    heap,        \* list objects: ListIds -> sequence of numbers
    files,       \* file objects opened so far: [dev, closed, releases,
                 \* nonblock]
    queue,       \* the records buffered for the file object self.jsfile
    caps,        \* what the capability ioctls of the device report
    last,        \* the last call on the instance: [op, arg, err, io, taken]
    ret          \* the result of the latest successful read(), which the
                 \* caller holds until it opens again: references to two
                 \* lists

vars == <<opened, device_id, jsfile, axes, buttons, heap, files, queue, caps,
          last, ret>>

\* ------------------------------------------------------------ arithmetic
RECURSIVE BitAnd(_, _)
BitAnd(a, b) ==
    IF a = 0 \/ b = 0 THEN 0
    ELSE (a % 2) * (b % 2) + 2 * BitAnd(a \div 2, b \div 2)

Abs(n) == IF n < 0 THEN -n ELSE n

RECURSIVE Gcd(_, _)
Gcd(a, b) == IF b = 0 THEN a ELSE Gcd(b, a % b)

\* the Python integer n
IntVal(n) == <<n, 1>>

\* the Python float n / d, exactly
TrueDiv(n, d) == LET g == Gcd(Abs(n), d) IN <<n \div g, d \div g>>

\* list(0 for i in range(n))
Zeros(n) == [i \in 1..n |-> IntVal(0)]

Min(S) == CHOOSE x \in S : \A y \in S : x <= y

\* A finished call: the operation, its argument, the exception it raised
\* ("none": it returned), the I/O failure it met ("EIO": file.read failed
\* with an errno other than EAGAIN, "ioctl": fcntl.ioctl raised), the
\* records it took from the buffer, in order, and whether the instance was
\* opened when the call was made.
Done(op, arg, err, io, taken) ==
    [op |-> op, arg |-> arg, err |-> err, io |-> io, taken |-> taken,
     was |-> opened]

\* the first records of q, those that are no longer in its suffix rest
Taken(q, rest) == SubSeq(q, 1, Len(q) - Len(rest))

\* ---------------------------------------------------------- file objects
\* file.close(): releases the descriptor once; closing a closed file object
\* does nothing
file_close(fs, h) ==
    IF fs[h].closed THEN fs
    ELSE [fs EXCEPT ![h].closed = TRUE, ![h].releases = @ + 1]

\* a slip: the file object is left as the built-in open() made it, blocking
set_nonblock_forgot(f) == f

\* fcntl.fcntl(self.jsfile.fileno(), fcntl.F_SETFL, os.O_NONBLOCK)
set_nonblock(f) == [f EXCEPT !.nonblock = TRUE]

\* what self.jsfile.read(struct.calcsize(JS_EVENT_FMT)) does on the file
\* object h with the records q buffered: ValueError on a closed file
\* object, IOError with an errno other than EAGAIN when the device fails
\* (io = 0: now), otherwise the next record; when nothing is buffered,
\* IOError EAGAIN on a non-blocking file object, while a blocking one waits
\* for a record ("wait": the call does not come back)
file_read(fs, h, q, io) ==
    IF fs[h].closed THEN "ValueError"
    ELSE IF io = 0 THEN "EIO"
    ELSE IF q = <<>> THEN IF fs[h].nonblock THEN "EAGAIN" ELSE "wait"
    ELSE "data"

\* the outcomes of file.read that Python raises as IOError
IsIOError(o) == o \in {"EAGAIN", "EIO"}

\* the fault is one record nearer after a record was delivered
After(io) == IF io > 0 THEN io - 1 ELSE io

\* the smallest list object not in use
NewList(live) == Min(ListIds \ live)

\* List objects matter up to their names only: once open() has replaced
\* lists of the instance, the lists a and b it refers to are renamed
\* AxesId and ButtonsId and every other list object, which nothing refers
\* to any more, is freed.
ButtonsId == 1
AxesId == 2
Rename(hp, a, b) ==
    [i \in ListIds |-> IF i = AxesId THEN hp[a]
                       ELSE IF i = ButtonsId THEN hp[b] ELSE <<>>]

\* ------------------------------------------------------------ state fold
\* a slip: an index outside the list is skipped without a word
updatestate_skip(hp, a, b, jsdata) ==
    IF BitAnd(jsdata.type, JS_EVENT_AXIS) # 0
    THEN [err |-> "none",
          heap |-> IF jsdata.number < Len(hp[a])
                   THEN [hp EXCEPT ![a][jsdata.number + 1] =
                                       TrueDiv(jsdata.value, AXIS_SCALE)]
                   ELSE hp]
    ELSE IF BitAnd(jsdata.type, JS_EVENT_BUTTON) # 0
    THEN [err |-> "none",
          heap |-> IF jsdata.number < Len(hp[b])
                   THEN [hp EXCEPT ![b][jsdata.number + 1] =
                                       IntVal(jsdata.value)]
                   ELSE hp]
    ELSE [err |-> "none", heap |-> hp]

\* a slip: an index just past the end makes the list grow
updatestate_grow(hp, a, b, jsdata) ==
    IF BitAnd(jsdata.type, JS_EVENT_AXIS) # 0
    THEN IF jsdata.number < Len(hp[a])
         THEN [err |-> "none",
               heap |-> [hp EXCEPT ![a][jsdata.number + 1] =
                                       TrueDiv(jsdata.value, AXIS_SCALE)]]
         ELSE IF jsdata.number = Len(hp[a])
         THEN [err |-> "none",
               heap |-> [hp EXCEPT ![a] =
                            Append(@, TrueDiv(jsdata.value, AXIS_SCALE))]]
         ELSE [err |-> "IndexError", heap |-> hp]
    ELSE IF BitAnd(jsdata.type, JS_EVENT_BUTTON) # 0
    THEN IF jsdata.number < Len(hp[b])
         THEN [err |-> "none",
               heap |-> [hp EXCEPT ![b][jsdata.number + 1] =
                                       IntVal(jsdata.value)]]
         ELSE [err |-> "IndexError", heap |-> hp]
    ELSE [err |-> "none", heap |-> hp]

\* a slip: the value of a button is divided by 32768.0 like that of an axis,
\* as __decode_event does
updatestate_scaled(hp, a, b, jsdata) ==
    IF BitAnd(jsdata.type, JS_EVENT_AXIS) # 0
    THEN IF jsdata.number < Len(hp[a])
         THEN [err |-> "none",
               heap |-> [hp EXCEPT ![a][jsdata.number + 1] =
                                       TrueDiv(jsdata.value, AXIS_SCALE)]]
         ELSE [err |-> "IndexError", heap |-> hp]
    ELSE IF BitAnd(jsdata.type, JS_EVENT_BUTTON) # 0
    THEN IF jsdata.number < Len(hp[b])
         THEN [err |-> "none",
               heap |-> [hp EXCEPT ![b][jsdata.number + 1] =
                                       TrueDiv(jsdata.value, AXIS_SCALE)]]
         ELSE [err |-> "IndexError", heap |-> hp]
    ELSE [err |-> "none", heap |-> hp]

\* a slip: "if" for "elif", a record with both bits set is folded twice
updatestate_both(hp, a, b, jsdata) ==
    LET isaxis == BitAnd(jsdata.type, JS_EVENT_AXIS) # 0
        isbutton == BitAnd(jsdata.type, JS_EVENT_BUTTON) # 0
        hp1 == IF isaxis /\ jsdata.number < Len(hp[a])
               THEN [hp EXCEPT ![a][jsdata.number + 1] =
                                   TrueDiv(jsdata.value, AXIS_SCALE)]
               ELSE hp
        hp2 == IF isbutton /\ jsdata.number < Len(hp[b])
               THEN [hp1 EXCEPT ![b][jsdata.number + 1] =
                                    IntVal(jsdata.value)]
               ELSE hp1
    IN  IF isaxis /\ jsdata.number >= Len(hp[a])
        THEN [err |-> "IndexError", heap |-> hp]
        ELSE IF isbutton /\ jsdata.number >= Len(hp[b])
        THEN [err |-> "IndexError", heap |-> hp1]
        ELSE [err |-> "none", heap |-> hp2]

\* Joystick.__updatestate on the lists a (self.axes) and b (self.buttons):
\* a list assignment outside the list raises IndexError and writes nothing
updatestate(hp, a, b, jsdata) ==
    IF BitAnd(jsdata.type, JS_EVENT_AXIS) # 0
    THEN IF jsdata.number < Len(hp[a])
         THEN [err |-> "none",
               heap |-> [hp EXCEPT ![a][jsdata.number + 1] =
                                       TrueDiv(jsdata.value, AXIS_SCALE)]]
         ELSE [err |-> "IndexError", heap |-> hp]
    ELSE IF BitAnd(jsdata.type, JS_EVENT_BUTTON) # 0
    THEN IF jsdata.number < Len(hp[b])
         THEN [err |-> "none",
               heap |-> [hp EXCEPT ![b][jsdata.number + 1] =
                                       IntVal(jsdata.value)]]
         ELSE [err |-> "IndexError", heap |-> hp]
    ELSE [err |-> "none", heap |-> hp]

\* the except clause of _read_all_events: the outcomes of file.read that
\* end the loop silently
Swallowed(o) == IsIOError(o)

\* a slip: "if" for "while", one record is read and folded
read_one_event(hp, a, b, fs, h, q, io) ==
    LET o == file_read(fs, h, q, io) IN
    IF o # "data"
    THEN [err |-> IF Swallowed(o) THEN "none"
                  ELSE IF IsIOError(o) THEN "IOError" ELSE o,
          heap |-> hp, queue |-> q,
          io |-> IF o = "EIO" THEN "EIO" ELSE "none"]
    ELSE LET u == updatestate(hp, a, b, Head(q)) IN
         [err |-> u.err, heap |-> u.heap, queue |-> Tail(q), io |-> "none"]

\* Joystick._read_all_events: read and fold until file.read raises; an
\* IOError ends the loop silently, any other exception propagates.
\* io in the result: the I/O failure the loop met, if any.
RECURSIVE read_all_events(_, _, _, _, _, _, _)
read_all_events(hp, a, b, fs, h, q, io) ==
    LET o == file_read(fs, h, q, io) IN
    IF o # "data"
    THEN [err |-> IF Swallowed(o) THEN "none"
                  ELSE IF IsIOError(o) THEN "IOError" ELSE o,
          heap |-> hp, queue |-> q,
          io |-> IF o = "EIO" THEN "EIO" ELSE "none"]
    ELSE LET u == updatestate(hp, a, b, Head(q)) IN
         IF u.err # "none"
         THEN [err |-> u.err, heap |-> u.heap, queue |-> Tail(q),
               io |-> "none"]
         ELSE read_all_events(u.heap, a, b, fs, h, Tail(q), After(io))

\* a slip: the initial drain takes whatever is buffered, not n records
initvalues_drain(hp, a, b, fs, h, q, io, n) ==
    read_all_events(hp, a, b, fs, h, q, io)

\* Joystick.__initvalues: n = len(self.axes) + len(self.buttons) reads, each
\* folded; every exception propagates
RECURSIVE initvalues(_, _, _, _, _, _, _, _)
initvalues(hp, a, b, fs, h, q, io, n) ==
    IF n = 0 THEN [err |-> "none", heap |-> hp, queue |-> q, io |-> "none"]
    ELSE LET o == file_read(fs, h, q, io) IN
         IF o # "data"
         THEN [err |-> IF IsIOError(o) THEN "IOError" ELSE o,
               heap |-> hp, queue |-> q,
               io |-> IF o = "EIO" THEN "EIO" ELSE "none"]
         ELSE LET u == updatestate(hp, a, b, Head(q)) IN
              IF u.err # "none"
              THEN [err |-> u.err, heap |-> u.heap, queue |-> Tail(q),
                    io |-> "none"]
              ELSE initvalues(u.heap, a, b, fs, h, Tail(q), After(io), n - 1)

\* ------------------------------------------------------------------ open
\* What one call of open() meets: fin, the runtime finalises (closes) the
\* file object that the assignment to self.jsfile drops; q1 and q2, how the
\* two ioctls end: 0, a non-zero return value, or an IOError raised by
\* fcntl.ioctl itself; replay, the records the driver has buffered for the
\* new file object; io, when the device fails during the reads.  Choices
\* that the call never gets to look at are left out.
OpenInputs ==
    LET fins == IF jsfile # NoFile /\ ~files[jsfile].closed
                THEN BOOLEAN ELSE {FALSE}
        nonzero == {[q1 |-> "nonzero", q2 |-> "ok"],
                    [q1 |-> "ok", q2 |-> "nonzero"]}
        raise == {[q1 |-> "raise", q2 |-> "ok"], [q1 |-> "ok", q2 |-> "raise"]}
    IN  {[fin |-> f, q1 |-> q.q1, q2 |-> q.q2, replay |-> <<>>,
          io |-> NoFault] : f \in fins, q \in nonzero}
        \cup {[fin |-> f, q1 |-> q.q1, q2 |-> q.q2, replay |-> r,
               io |-> NoFault] : f \in fins, q \in raise, r \in Replays(caps)}
        \cup {[fin |-> f, q1 |-> "ok", q2 |-> "ok", replay |-> r,
               io |-> i] : f \in fins, r \in Replays(caps), i \in IOFaults}

\* The statements of Joystick.open after the "already opened" test, on a
\* device node that exists.
open_body(d, in) ==
    LET h == Len(files) + 1
        fs0 == IF jsfile # NoFile /\ in.fin THEN file_close(files, jsfile)
               ELSE files
        fs1 == Append(fs0, set_nonblock([dev |-> d, closed |-> FALSE,
                                         releases |-> 0,
                                         nonblock |-> FALSE]))
        a2 == NewList({axes, buttons})
        hp1 == [heap EXCEPT ![a2] = Zeros(caps.axes)]
        b2 == NewList({a2, axes, buttons})
        hp2 == [hp1 EXCEPT ![b2] = Zeros(caps.buttons)]
        iv == initvalues(hp2, a2, b2, fs1, h, in.replay, in.io,
                         Len(hp2[a2]) + Len(hp2[b2]))
        same == [opened |-> opened, jsfile |-> h, axes |-> axes,
                 buttons |-> buttons, heap |-> heap, files |-> fs1,
                 queue |-> in.replay, err |-> "none", io |-> "none",
                 taken |-> <<>>]
    IN  IF in.q1 = "raise"
        THEN [same EXCEPT !.err = "IOError", !.io = "ioctl"]
        ELSE IF in.q1 = "nonzero"
        THEN [same EXCEPT !.files = file_close(fs1, h), !.queue = <<>>,
                          !.err = "Exception"]
        ELSE IF in.q2 = "raise"
        THEN [same EXCEPT !.axes = a2, !.heap = hp1, !.err = "IOError",
                          !.io = "ioctl"]
        ELSE IF in.q2 = "nonzero"
        THEN [same EXCEPT !.axes = a2, !.heap = hp1,
                          !.files = file_close(fs1, h), !.queue = <<>>,
                          !.err = "Exception"]
        ELSE [same EXCEPT !.axes = a2, !.buttons = b2, !.heap = iv.heap,
                          !.queue = iv.queue, !.err = iv.err, !.io = iv.io,
                          !.taken = Taken(in.replay, iv.queue),
                          !.opened = IF iv.err = "none" THEN TRUE ELSE opened]

\* a slip: the test is missing
open_refuses_never(d) == FALSE

\* a slip: any open() on an opened instance is refused
open_refuses_always(d) == opened

\* the test that opens Joystick.open
open_refuses(d) == opened /\ d # device_id

\* Joystick.open(device_id)
open(d) ==
    /\ UNCHANGED caps
    /\ IF open_refuses(d)
       THEN /\ last' = Done("open", d, "AlreadyOpened", "none", <<>>)
            /\ UNCHANGED <<opened, device_id, jsfile, axes, buttons, heap,
                           files, queue, ret>>
       ELSE IF d \notin Plugged
            THEN \* the built-in open() raises IOError: no such device node
                 /\ device_id' = d
                 /\ last' = Done("open", d, "IOError", "none", <<>>)
                 /\ UNCHANGED <<opened, jsfile, axes, buttons, heap, files,
                                queue, ret>>
            ELSE /\ Len(files) < MaxOpens
                 /\ ret' = NoResult
                 /\ \E o \in {open_body(d, in) : in \in OpenInputs} :
                      /\ o.err # "wait"
                      /\ device_id' = d
                      /\ opened' = o.opened
                      /\ jsfile' = o.jsfile
                      /\ axes' = AxesId
                      /\ buttons' = ButtonsId
                      /\ heap' = Rename(o.heap, o.axes, o.buttons)
                      /\ files' = o.files
                      /\ queue' = o.queue
                      /\ last' = Done("open", d, o.err, o.io, o.taken)

\* ----------------------------------------------------------------- close
\* a slip: the test looks at the file object, not at the flag
close_returns_nofile == jsfile = NoFile

\* the test that opens Joystick.close
close_returns == ~opened

\* Joystick.close(); the driver drops what it buffered for a closed file
close ==
    /\ last' = Done("close", -1, "none", "none", <<>>)
    /\ UNCHANGED <<device_id, jsfile, axes, buttons, heap, caps, ret>>
    /\ IF close_returns
       THEN UNCHANGED <<opened, files, queue>>
       ELSE /\ files' = file_close(files, jsfile)
            /\ queue' = <<>>
            /\ opened' = FALSE

\* ------------------------------------------------------------------ read
\* return [self.axes, self.buttons]: the two list objects themselves
read_result(a, b) == [axes |-> a, buttons |-> b]

\* a slip: the test looks at the file object, not at the flag
read_refuses_nofile == jsfile = NoFile

\* the test that opens Joystick.read
read_refuses == ~opened

\* Joystick.read(); io: when the device fails during the reads
read ==
    /\ UNCHANGED <<opened, device_id, jsfile, axes, buttons, files, caps>>
    /\ IF read_refuses
       THEN /\ last' = Done("read", -1, "NotOpened", "none", <<>>)
            /\ UNCHANGED <<heap, queue, ret>>
       ELSE \E r \in {read_all_events(heap, axes, buttons, files, jsfile,
                                       queue, io) : io \in IOFaults} :
                /\ r.err # "wait"
                /\ ret' = IF r.err = "none" THEN read_result(axes, buttons)
                          ELSE ret
                /\ heap' = r.heap
                /\ queue' = r.queue
                /\ last' = Done("read", -1, r.err, r.io,
                                 Taken(queue, r.queue))

\* ----------------------------------------------------------- environment
\* the driver buffers one more event record for the file object the opened
\* instance reads
Arrive(r) ==
    /\ opened
    /\ ~files[jsfile].closed
    /\ Len(queue) < MaxQueue
    /\ queue' = Append(queue, r)
    /\ last' = Done("arrive", -1, "none", "none", <<>>)
    /\ UNCHANGED <<opened, device_id, jsfile, axes, buttons, heap, files,
                   caps, ret>>

\* Joystick.__init__, before any device was touched
Init ==
    /\ opened = FALSE
    /\ buttons = ButtonsId
    /\ axes = AxesId
    /\ heap = [i \in ListIds |-> <<>>]
    /\ jsfile = NoFile
    /\ device_id = -1
    /\ files = <<>>
    /\ queue = <<>>
    /\ caps \in Caps
    /\ last = Done("init", -1, "none", "none", <<>>)
    /\ ret = NoResult

Next ==
    \/ \E d \in Devices : open(d)
    \/ close
    \/ read
    \/ \E r \in Records : Arrive(r)

Spec == Init /\ [][Next]_vars

\* ------------------------------------------------ read(), turn by turn
\* The same instance with the loop of _read_all_events taken one turn at a
\* time: while last.op = "reading" a read() is inside the loop and last.taken
\* holds the records it has taken so far.  The caller is one thread, so it
\* makes no other call meanwhile, and no record arrives during the call.
Idle == last.op # "reading"

\* Joystick.read() up to the loop
read_begin ==
    /\ Idle
    /\ UNCHANGED <<opened, device_id, jsfile, axes, buttons, heap, files,
                   queue, caps, ret>>
    /\ last' = IF read_refuses
                THEN Done("read", -1, "NotOpened", "none", <<>>)
                ELSE Done("reading", -1, "none", "none", <<>>)

\* one turn of "while True": a record is read and folded, or file.read
\* raises and the loop is over: on an IOError read() returns the two lists,
\* on any other exception it raises it; io: whether the device fails at
\* this file.read
read_turn(io) ==
    LET o == file_read(files, jsfile, queue, io) IN
    /\ ~Idle
    /\ o # "wait"
    /\ UNCHANGED <<opened, device_id, jsfile, axes, buttons, files, caps>>
    /\ IF o # "data"
       THEN LET err == IF Swallowed(o) THEN "none" ELSE o IN
            /\ ret' = IF err = "none" THEN read_result(axes, buttons)
                      ELSE ret
            /\ last' = Done("read", -1, err,
                             IF o = "EIO" THEN "EIO" ELSE "none",
                             last.taken)
            /\ UNCHANGED <<heap, queue>>
       ELSE LET u == updatestate(heap, axes, buttons, Head(queue))
                t == Append(last.taken, Head(queue))
            IN  /\ heap' = u.heap
                /\ queue' = Tail(queue)
                /\ last' = IF u.err # "none"
                            THEN Done("read", -1, u.err, "none", t)
                            ELSE [last EXCEPT !.taken = t]
                /\ UNCHANGED ret

LoopNext ==
    \/ \E d \in Devices : Idle /\ open(d)
    \/ Idle /\ close
    \/ \E r \in Records : Idle /\ Arrive(r)
    \/ read_begin
    \/ \E io \in IOFaults : read_turn(io)

\* the thread that called read() keeps running it; nothing promises that
\* the device fails
LoopSpec == Init /\ [][LoopNext]_vars /\ WF_vars(read_turn(NoFault))

\* ------------------------------------------------- the fold on its own
\* Joystick.__updatestate under every kind of record: each combination of
\* the button, axis and init bits, indices inside and outside the lists,
\* and values at the ends and in the middle of the signed 16-bit range.
FoldTypes ==
    {t + i : t \in {0, JS_EVENT_BUTTON, JS_EVENT_AXIS,
                     JS_EVENT_BUTTON + JS_EVENT_AXIS},
             i \in {0, JS_EVENT_INIT}}
FoldValues == {-32768, 0, 1, 16384, 32767}
FoldRecords == [type : FoldTypes, number : {0, 1, 2}, value : FoldValues]
FoldCaps == [axes |-> 2, buttons |-> 1]

\* the instance after open(0) has returned on a device with two axes and
\* a button whose replay was buffered in full
FoldInit ==
    /\ opened = TRUE
    /\ device_id = 0
    /\ jsfile = 1
    /\ axes = AxesId
    /\ buttons = ButtonsId
    /\ caps = FoldCaps
    /\ files = <<[dev |-> 0, closed |-> FALSE, releases |-> 0,
                   nonblock |-> TRUE]>>
    /\ queue = <<>>
    /\ heap = initvalues([i \in ListIds |->
                              IF i = AxesId THEN Zeros(FoldCaps.axes)
                              ELSE IF i = ButtonsId
                              THEN Zeros(FoldCaps.buttons) ELSE <<>>],
                         AxesId, ButtonsId, files, jsfile,
                         FullReplay(FoldCaps), NoFault,
                         FoldCaps.axes + FoldCaps.buttons).heap
    /\ last = [Done("open", 0, "none", "none", FullReplay(FoldCaps))
                   EXCEPT !.was = FALSE]
    /\ ret = NoResult

\* self.__updatestate(jsdata), as one turn of the drain loop calls it, for
\* the record r
Fold(r) ==
    LET u == updatestate(heap, axes, buttons, r) IN
    /\ heap' = u.heap
    /\ last' = Done("fold", -1, u.err, "none", <<r>>)
    /\ UNCHANGED <<opened, device_id, jsfile, axes, buttons, files, queue,
                   caps, ret>>

FoldNext == \E r \in FoldRecords : Fold(r)

FoldSpec == FoldInit /\ [][FoldNext]_vars

\* ================================================================ claims
\* the fields of the instance, the file objects and the buffer
fields == <<opened, device_id, jsfile, axes, buttons, heap, files, queue,
            caps, ret>>

\* C1: read() on an instance that is not opened raises "not opened" and
\* changes no field of the instance, no file object and takes no record.
C1_ReadNotOpened ==
    [][(~opened /\ last'.op = "read")
        => (last'.err = "NotOpened" /\ UNCHANGED fields)]_vars

\* C1 happens: read() was refused on an instance that has a file object
\* with records buffered
C1_Witness ==
    /\ ~opened /\ last.op = "read" /\ last.err = "NotOpened"
    /\ jsfile # NoFile /\ queue # <<>>

\* C2: open(Y) on an instance opened on X # Y raises "already opened" and
\* changes nothing: same device, same file object, same lists, no new file
\* object.
C2_OpenOther ==
    [][(opened /\ last'.op = "open" /\ last'.arg # device_id)
        => (last'.err = "AlreadyOpened" /\ UNCHANGED fields)]_vars

\* C2 happens: an open of another id was refused on an opened instance
C2_Witness ==
    /\ opened /\ last.op = "open" /\ last.arg # device_id
    /\ last.err = "AlreadyOpened"

\* C3: once close() has returned, every file object the instance acquired
\* has been released, and released once.
C3_ReleasedOnce ==
    last.op = "close" => \A h \in 1..Len(files) : files[h].releases = 1

\* C4: close() on an opened instance releases its file object and clears
\* opened; on an instance that is not opened it changes nothing and releases
\* nothing.
C4_CloseIdempotent ==
    [][last'.op = "close"
        => /\ ~opened'
           /\ UNCHANGED <<device_id, jsfile, axes, buttons, heap, caps, ret>>
           /\ IF opened
              THEN /\ files'[jsfile].closed
                   /\ files'[jsfile].releases = 1
                   /\ \A h \in 1..Len(files) :
                        h # jsfile => files'[h] = files[h]
                   /\ Len(files') = Len(files)
              ELSE UNCHANGED <<opened, files, queue>>]_vars

\* C4 happens: close() has returned on an instance whose file object is
\* released
C4_Witness ==
    /\ last.op = "close" /\ ~opened
    /\ jsfile # NoFile /\ files[jsfile].releases = 1

\* C5: while the caller holds the result of a read(), no operation changes
\* the contents of the two lists of that result.
C5_SnapshotByValue ==
    [][(ret # NoResult /\ ret' # NoResult)
        => (heap'[ret.axes] = heap[ret.axes]
            /\ heap'[ret.buttons] = heap[ret.buttons])]_vars

\* ------------------------------------------- what a fold should leave
\* the record has the axis bit set
IsAxisRec(r) == (r.type \div JS_EVENT_AXIS) % 2 = 1

\* the record has the button bit set and not the axis bit
IsButtonRec(r) == ~IsAxisRec(r) /\ r.type % 2 = 1

\* the record's index is outside the list of its kind
OutOfRange(r, na, nb) ==
    \/ IsAxisRec(r) /\ r.number >= na
    \/ IsButtonRec(r) /\ r.number >= nb

Max(S) == CHOOSE x \in S : \A y \in S : x >= y

\* the records of t that are out of range for lists of na and nb elements
Bad(t, na, nb) == {j \in 1..Len(t) : OutOfRange(t[j], na, nb)}

\* new is old with, at each index that an axis record of t names, the value
\* of the last such record over 32768, and nothing else changed
AxesAre(new, old, t) ==
    /\ Len(new) = Len(old)
    /\ \A i \in 1..Len(old) :
         LET hits == {j \in 1..Len(t) :
                        IsAxisRec(t[j]) /\ t[j].number = i - 1}
         IN  IF hits = {} THEN new[i] = old[i]
             ELSE /\ new[i][2] > 0
                  /\ new[i][1] * AXIS_SCALE = t[Max(hits)].value * new[i][2]

\* new is old with, at each index that a button record of t names, the
\* value of the last such record, and nothing else changed
ButtonsAre(new, old, t) ==
    /\ Len(new) = Len(old)
    /\ \A i \in 1..Len(old) :
         LET hits == {j \in 1..Len(t) :
                        IsButtonRec(t[j]) /\ t[j].number = i - 1}
         IN  IF hits = {} THEN new[i] = old[i]
             ELSE new[i] = <<t[Max(hits)].value, 1>>

\* C6 as claimed, on a file object that is open and meets no I/O failure:
\* read() on an opened instance takes every buffered record, in order,
\* raises nothing, and leaves at each index the last value sent to it.
C6_DrainsAll ==
    [][(opened /\ last'.op = "read" /\ ~files[jsfile].closed
            /\ last'.io = "none")
        => /\ last'.err = "none"
           /\ last'.taken = queue
           /\ queue' = <<>>
           /\ AxesAre(heap'[axes], heap[axes], queue)
           /\ ButtonsAre(heap'[buttons], heap[buttons], queue)]_vars

\* C6 amended: read() on an opened instance takes the buffered records in
\* order and folds them until the buffer is empty (would-block), and then
\* returns without error, or until it has taken a record whose index is out
\* of range, and then raises IndexError with the later records left in the
\* buffer.  On a closed file object it raises ValueError with nothing
\* taken, and an I/O failure ends the drain silently where it occurs.
\* Afterwards each index named by an in-range record that was taken holds
\* the value of the last such record and every other index is as before.
C6_Drain ==
    [][(opened /\ last'.op = "read")
        => LET t == last'.taken
               n == Len(t)
               bad == Bad(t, Len(heap[axes]), Len(heap[buttons]))
               good == IF bad = {} THEN t ELSE SubSeq(t, 1, n - 1)
           IN  /\ n <= Len(queue)
               /\ t = SubSeq(queue, 1, n)
               /\ queue' = SubSeq(queue, n + 1, Len(queue))
               /\ bad \subseteq {n}
               /\ last'.err = IF files[jsfile].closed THEN "ValueError"
                              ELSE IF bad # {} THEN "IndexError"
                              ELSE "none"
               /\ files[jsfile].closed => n = 0
               /\ (last'.err = "none" /\ last'.io = "none") => queue' = <<>>
               /\ AxesAre(heap'[axes], heap[axes], good)
               /\ ButtonsAre(heap'[buttons], heap[buttons], good)]_vars

\* C6 happens: a read() took two records for the same axis, with different
\* values, until the buffer was empty
C6_Witness ==
    /\ opened /\ last.op = "read" /\ last.err = "none" /\ last.io = "none"
    /\ Len(last.taken) = 2 /\ queue = <<>>
    /\ IsAxisRec(last.taken[1]) /\ IsAxisRec(last.taken[2])
    /\ last.taken[1].number = last.taken[2].number
    /\ last.taken[1].value # last.taken[2].value

\* C7: a read() whose drain meets an I/O failure other than would-block
\* raises an error instead of returning (axes, buttons).
C7_IOFailureSurfaced ==
    (last.op = "read" /\ last.io = "EIO") => last.err # "none"

\* C8: a record whose index is out of range makes the open() or read() that
\* folds it raise IndexError at that record; the lists keep their lengths
\* and hold nothing but the records taken before it.
C8_IndexError ==
    [][(last'.op \in {"open", "read"} /\ last'.taken # <<>>)
        => LET t == last'.taken
               n == Len(t)
               oldA == IF last'.op = "read" THEN heap[axes]
                       ELSE [i \in 1..caps.axes |-> <<0, 1>>]
               oldB == IF last'.op = "read" THEN heap[buttons]
                       ELSE [i \in 1..caps.buttons |-> <<0, 1>>]
               bad == Bad(t, Len(oldA), Len(oldB))
           IN  bad # {}
               => /\ last'.err = "IndexError"
                  /\ bad = {n}
                  /\ AxesAre(heap'[axes'], oldA, SubSeq(t, 1, n - 1))
                  /\ ButtonsAre(heap'[buttons'], oldB,
                                SubSeq(t, 1, n - 1))]_vars

\* C8 happens: a read() folded a record and then took one with its index
\* out of range
C8_Witness ==
    /\ last.op = "read" /\ last.err = "IndexError"
    /\ Len(last.taken) = 2
    /\ OutOfRange(last.taken[2], Len(heap[axes]), Len(heap[buttons]))

\* C9: an open() whose capability query fails has released the file object
\* it acquired and does not leave the instance opened.
C9_QueryFailure ==
    (last.op = "open" /\ (last.err = "Exception" \/ last.io = "ioctl"))
        => (files[jsfile].closed /\ ~opened)

\* C10: from a successful open() to the close(), the axis list has as many
\* elements as the device reports axes and the button list as many as it
\* reports buttons, and so have the two lists every read() returns.
C10_Lengths ==
    opened
        => /\ Len(heap[axes]) = caps.axes
           /\ Len(heap[buttons]) = caps.buttons
           /\ (last.op = "read" /\ last.err = "none")
                => /\ ret # NoResult
                   /\ Len(heap[ret.axes]) = caps.axes
                   /\ Len(heap[ret.buttons]) = caps.buttons

\* C10 happens: a read() on a device with two axes and a button folded
\* records and returned
C10_Witness ==
    /\ opened /\ last.op = "read" /\ last.err = "none"
    /\ last.taken # <<>> /\ caps = [axes |-> 2, buttons |-> 1]

\* C11: a read() that follows a read() that returned, with no record arrived
\* in between, returns too, takes no record and changes nothing: the lists
\* it returns hold what the lists of the first one held.
C11_ReadTwice ==
    [][(opened /\ last.op = "read" /\ last.err = "none" /\ last'.op = "read")
        => (last'.err = "none" /\ last'.taken = <<>> /\ UNCHANGED fields)]_vars

C13_Values ==
    [][last'.op = "fold"
        => LET r == last'.taken[1]
               i == r.number + 1
           IN  /\ AxesAre(heap'[axes], heap[axes], <<r>>)
               /\ ButtonsAre(heap'[buttons], heap[buttons], <<r>>)
               /\ (IsAxisRec(r) /\ r.number < Len(heap[axes]))
                    => /\ r.value = 16384 => heap'[axes][i] = <<1, 2>>
                       /\ r.value = -32768 => heap'[axes][i] = <<-1, 1>>
               /\ (IsButtonRec(r) /\ r.number < Len(heap[buttons])
                      /\ r.value \in {0, 1})
                    => heap'[buttons][i] \in {<<0, 1>>, <<1, 1>>}
               /\ \A j \in 1..Len(heap'[axes]) :
                     LET x == heap'[axes][j]
                     IN  x[2] > 0 /\ -x[2] <= x[1] /\ x[1] <= x[2]]_vars

\* C13 happens: an axis holds 32767/32768, the largest value an event can
\* give it, and the button holds the raw 1
C13_Witness ==
    /\ last.op = "fold" /\ last.err = "none"
    /\ heap[axes][2] = <<32767, AXIS_SCALE>>
    /\ heap[axes][1] = <<-1, 1>>
    /\ heap[buttons][1] = <<1, 1>>

\* C14: an open() that returns has taken exactly axes + buttons records,
\* the first ones of what the driver had buffered, and what was buffered
\* behind them is still buffered; no open() takes more than that, and an
\* open() that finds fewer records than that does not return.
C14_InitialDrain ==
    [][(last'.op = "open" /\ last'.arg \in Plugged
            /\ last'.err # "AlreadyOpened")
        => LET n == caps.axes + caps.buttons IN
           /\ Len(last'.taken) <= n
           /\ Len(last'.taken) + Len(queue') < n => last'.err # "none"
           /\ last'.err = "none"
                => /\ opened'
                   /\ Len(last'.taken) = n
                   /\ last'.taken \o queue' \in Replays(caps)]_vars

\* C14 happens: an open() on a device with three controls has returned and
\* a record that was buffered behind the replay is still buffered
C14_Witness ==
    /\ opened /\ last.op = "open" /\ last.err = "none"
    /\ Len(last.taken) = 3 /\ Len(queue) = 1

\* the record r with its init bit flipped
FlipInit(r) ==
    [r EXCEPT !.type = IF (@ \div JS_EVENT_INIT) % 2 = 1
                       THEN @ - JS_EVENT_INIT ELSE @ + JS_EVENT_INIT]

\* C15: the fold of one record changes one element at most: with the axis
\* bit set, none but the axis of its index and no button, whether or not
\* the button bit is set too; with the button bit alone, none but the
\* button of its index and no axis; with neither bit, nothing at all; and
\* the same record with its init bit flipped would have left the same
\* lists.
C15_OneElement ==
    [][last'.op = "fold"
        => LET r == last'.taken[1]
               i == r.number + 1
           IN  /\ Len(heap'[axes]) = Len(heap[axes])
               /\ Len(heap'[buttons]) = Len(heap[buttons])
               /\ \A l \in ListIds \ {axes, buttons} : heap'[l] = heap[l]
               /\ IsAxisRec(r)
                    => /\ heap'[buttons] = heap[buttons]
                       /\ \A j \in 1..Len(heap[axes]) :
                            j # i => heap'[axes][j] = heap[axes][j]
               /\ IsButtonRec(r)
                    => /\ heap'[axes] = heap[axes]
                       /\ \A j \in 1..Len(heap[buttons]) :
                            j # i => heap'[buttons][j] = heap[buttons][j]
               /\ (~IsAxisRec(r) /\ ~IsButtonRec(r))
                    => (heap' = heap /\ last'.err = "none")
               /\ updatestate(heap, axes, buttons, FlipInit(r))
                    = [err |-> last'.err, heap |-> heap']]_vars

\* C15 happens: a record with the button, axis and init bits all set was
\* folded into the second axis and changed it
C15_Witness ==
    /\ last.op = "fold" /\ last.err = "none"
    /\ last.taken[1].type = JS_EVENT_BUTTON + JS_EVENT_AXIS + JS_EVENT_INIT
    /\ last.taken[1].number = 1
    /\ last.taken[1].value = 32767
    /\ heap[axes][2] = <<32767, AXIS_SCALE>>
    /\ heap[axes][1] = <<1, 2>>
    /\ heap[buttons][1] = <<1, 1>>

\* C16: a read() that has entered its loop comes out of it, returning or
\* raising: every turn that does not end the loop takes a record from the
\* buffer, which no record joins meanwhile, and a turn that finds the buffer
\* empty ends the loop at once.
C16_Terminates ==
    /\ (last.op = "reading") ~> (last.op = "read")
    /\ [][(last.op = "reading" /\ last'.op = "reading")
            => Len(queue') < Len(queue)]_vars
    /\ [][(last.op = "reading" /\ queue = <<>>) => last'.op = "read"]_vars

\* C16 happens: a read() has left its loop after it took two records, and
\* returned
C16_Witness ==
    /\ opened /\ last.op = "read" /\ last.err = "none" /\ last.io = "none"
    /\ Len(last.taken) = 2 /\ queue = <<>>

\* C17: whenever the instance is opened, self.jsfile is a file object that
\* was acquired and has not been released.
C17_OpenedHandleLive ==
    opened => (jsfile # NoFile /\ ~files[jsfile].closed)

\* C18: whenever the instance is not opened, no file object it acquired is
\* left unreleased; so none is after an open() that failed on an instance
\* that was not opened.
C18_NoHandleWhenClosed ==
    ~opened => \A h \in 1..Len(files) : files[h].closed

====
